---- MODULE Spec2Model ----
(***************************************************************************)
(* Model of the Time (oid 3333) and Portfolio (oid 16) data-model objects  *)
(* of Anjay: their instance lists, resource handlers and transaction       *)
(* handlers.  One run drives the handlers of one constructed object; the   *)
(* two objects share no state (every handler reaches only its own object   *)
(* through get_obj).                                                       *)
(***************************************************************************)
EXTENDS Integers, Sequences, FiniteSets, TLC

VARIABLES
    live,                 \* which object was constructed: "time" or "portfolio"
    ndebug,               \* TRUE when the build defines NDEBUG (assert() expands to nothing)
    halted,               \* TRUE once the process has aborted
    time_instances,       \* time_object_t.instances
    portfolio_instances,  \* portfolio_t.instances
    portfolio_backup,     \* portfolio_t.backup
    last,                 \* the last handler call: its arguments and what it returned
    prev,                 \* the live object's lists and txn as they were before the last call
    txn,                  \* the coordinator's state for the live object
    pre,                  \* the live object's instance list when begin was last called
    dirty,                \* a mutating handler was called since begin was last called
    contract,             \* every create so far named an absent id, every remove a present id
    nops,                 \* number of handler calls made so far
    clock,                \* what the real-time clock reads, in seconds
    succ,                 \* per iid: successful notifications of the instance at this reading
    resolver              \* one call of _anjay_connection_security_generic_get_config

vars == <<live, ndebug, halted, time_instances, portfolio_instances,
          portfolio_backup, last, prev, txn, pre, dirty, contract, nops,
          clock, succ, resolver>>

-----------------------------------------------------------------------------
(* Bounds of the exploration *)

MaxOps == 6

\* the clock reads 0..MaxClock
MaxClock == 2

(* Program constants *)

RID_CURRENT_TIME == 5506
RID_FRACTIONAL_TIME == 5507
RID_APPLICATION_TYPE == 5750
APPLICATION_TYPE_SIZE == 64

RID_IDENTITY == 0
RID_GETAUTHDATA == 1
MAX_IDENTITY_TYPE == 4
MAX_IDENTITY_VALUE_SIZE == 256

ANJAY_ID_INVALID == 65535

\* handler results; ABORT stands for a call that never returns (abort() or a fault)
OK == "0"
ERR == "-1"
ANJAY_BUFFER_TOO_SHORT == "ANJAY_BUFFER_TOO_SHORT"
ANJAY_ERR_INTERNAL == "ANJAY_ERR_INTERNAL"
ANJAY_ERR_NOT_FOUND == "ANJAY_ERR_NOT_FOUND"
ANJAY_ERR_METHOD_NOT_ALLOWED == "ANJAY_ERR_METHOD_NOT_ALLOWED"
ABORT == "ABORT"

-----------------------------------------------------------------------------
(* Strings are sequences of characters; a char[N] buffer holds a string of  *)
(* at most N-1 characters.                                                  *)

EMPTY == <<>>
CLOCK_0 == <<"C", "l", "o", "c", "k", " ", "0">>
StrX == <<"X">>
StrY == <<"Y">>
LongStr(n) == [i \in 1..n |-> "a"]

TimeIIDs == {0, 1}
PortfolioIIDs == {1, 2}
Times == {10}

\* an anjay_input_ctx_t: the payload it carries, or a read error
InputCtx(strs) == {[fail |-> TRUE, str |-> EMPTY]}
                  \cup {[fail |-> FALSE, str |-> s] : s \in strs}
TimeCtxs == InputCtx({StrX, LongStr(APPLICATION_TYPE_SIZE)})
PortfolioCtxs == InputCtx({StrX, StrY, LongStr(MAX_IDENTITY_VALUE_SIZE)})
NoCtx == [fail |-> FALSE, str |-> EMPTY]
CtxX == [fail |-> FALSE, str |-> StrX]
CtxFail == [fail |-> TRUE, str |-> EMPTY]

\* the (sub-index, payload) pairs written to the Identity resource
PortfolioWrites == ({0} \X PortfolioCtxs) \cup ({3} \X {CtxX, CtxFail}) \cup ({5} \X {CtxX})

\* anjay_get_string(ctx, buf, size): the possible (result, buffer contents)
anjay_get_string(ctx, buf, size) ==
    IF ctx.fail
    THEN {[ret |-> ERR, buf |-> b] : b \in {buf, EMPTY}}
    ELSE IF Len(ctx.str) < size
         THEN {[ret |-> OK, buf |-> ctx.str]}
         ELSE {[ret |-> ANJAY_BUFFER_TOO_SHORT,
                buf |-> SubSeq(ctx.str, 1, size - 1)]}

-----------------------------------------------------------------------------
(* Instance lists *)

\* position of the first element whose iid satisfies the test, or Len + 1
FirstGE(list, iid) ==
    IF \E i \in 1..Len(list) : list[i].iid >= iid
    THEN CHOOSE i \in 1..Len(list) :
            /\ list[i].iid >= iid
            /\ \A j \in 1..(i - 1) : list[j].iid < iid
    ELSE Len(list) + 1

FirstGT(list, iid) ==
    IF \E i \in 1..Len(list) : list[i].iid > iid
    THEN CHOOSE i \in 1..Len(list) :
            /\ list[i].iid > iid
            /\ \A j \in 1..(i - 1) : list[j].iid <= iid
    ELSE Len(list) + 1

\* index of the instance found, 0 for NULL
find_instance(list, iid) ==
    LET i == FirstGE(list, iid)
    IN  IF i <= Len(list) /\ list[i].iid = iid THEN i ELSE 0

\* mutant: the new element is linked at the end of the list
InsertInstance_AtEnd(list, created) == Append(list, created)

\* AVS_LIST_FOREACH_PTR up to the first greater iid, then AVS_LIST_INSERT
InsertInstance(list, created) ==
    LET p == FirstGT(list, created.iid)
    IN  SubSeq(list, 1, p - 1) \o <<created>> \o SubSeq(list, p, Len(list))

\* mutant: the loop deletes the element it stops at without comparing its iid
remove_position_NoCompare(list, iid) ==
    LET i == FirstGE(list, iid)
    IN  IF i <= Len(list) THEN i ELSE 0

\* index of the element instance_remove's loop deletes, 0 when it leaves the
\* loop without deleting
remove_position(list, iid) ==
    LET i == FirstGE(list, iid)
    IN  IF i <= Len(list) /\ list[i].iid = iid THEN i ELSE 0

\* AVS_LIST_DELETE of the element at index i
DeleteAt(list, i) == SubSeq(list, 1, i - 1) \o SubSeq(list, i + 1, Len(list))

\* the iids emitted by list_instances, in emission order
list_instances(list) == [i \in 1..Len(list) |-> list[i].iid]

LiveInstances == IF live = "time" THEN time_instances ELSE portfolio_instances

-----------------------------------------------------------------------------
(* Bookkeeping shared by all handler calls *)

Call(op, iid, rid, riid, ctx, ret, out) ==
    [op |-> op, iid |-> iid, rid |-> rid, riid |-> riid, ctx |-> ctx,
     ret |-> ret, out |-> out]

Enabled(obj) == live = obj /\ ~halted /\ nops < MaxOps

RecordCall(call) ==
    /\ last' = call
    /\ prev' = [instances |-> LiveInstances, backup |-> portfolio_backup, txn |-> txn,
                clock |-> clock, succ |-> succ]
    /\ nops' = nops + 1
    /\ halted' = (call.ret = ABORT)
    /\ UNCHANGED <<live, ndebug, resolver>>

\* a data model handler: it does not touch the clock; an instance that is
\* created or removed starts its count of notifications afresh
Record(call) ==
    /\ RecordCall(call)
    /\ clock' = clock
    /\ succ' = IF call.op \in {"instance_create", "instance_remove"} /\ call.ret = OK
               THEN [succ EXCEPT ![call.iid] = 0]
               ELSE succ

Mutates == dirty' = TRUE /\ UNCHANGED <<txn, pre>>

\* the results of a handler whose assert() does not hold: abort() when asserts
\* are compiled in, otherwise whatever follows
AssertFailed(otherwise) == IF ndebug THEN otherwise ELSE {ABORT}

\* the results of a handler that uses inst although find_instance returned NULL:
\* abort() by assert(inst); without asserts the access through NULL faults, or
\* lands outside the object and the handler carries on
NullDeref(otherwise) == AssertFailed({ABORT} \cup otherwise)

NoOut == <<"none">>

-----------------------------------------------------------------------------
(* Time object *)

NewTimeInstance(iid) ==
    [iid |-> iid, application_type |-> EMPTY,
     application_type_backup |-> EMPTY, last_notify_timestamp |-> 0]

time_add_instance(list, iid) == InsertInstance(list, NewTimeInstance(iid))

time_instance_create(iid, alloc_ok) ==
    /\ Enabled("time")
    /\ LET found == find_instance(time_instances, iid) # 0
           rets == IF found THEN AssertFailed({IF alloc_ok THEN OK ELSE ANJAY_ERR_INTERNAL})
                   ELSE {IF alloc_ok THEN OK ELSE ANJAY_ERR_INTERNAL}
       IN  \E ret \in rets :
            /\ time_instances' = IF ret = OK THEN time_add_instance(time_instances, iid)
                                 ELSE time_instances
            /\ contract' = (contract /\ ~found)
            /\ Record(Call("instance_create", iid, 0, 0, NoCtx, ret, NoOut))
    /\ Mutates
    /\ UNCHANGED <<portfolio_instances, portfolio_backup>>

time_instance_remove(iid) ==
    /\ Enabled("time")
    /\ LET i == remove_position(time_instances, iid)
           rets == IF i # 0 THEN {OK} ELSE AssertFailed({ANJAY_ERR_NOT_FOUND})
       IN  \E ret \in rets :
            /\ time_instances' = IF i # 0 THEN DeleteAt(time_instances, i)
                                 ELSE time_instances
            /\ contract' = (contract /\ i # 0)
            /\ Record(Call("instance_remove", iid, 0, 0, NoCtx, ret, NoOut))
    /\ Mutates
    /\ UNCHANGED <<portfolio_instances, portfolio_backup>>

\* mutant: the buffer is left as it is
time_reset_instance_Keep(inst) == inst

\* inst->application_type[0] = '\0'
time_reset_instance(inst) == [inst EXCEPT !.application_type = EMPTY]

time_instance_reset(iid) ==
    /\ Enabled("time")
    /\ LET i == find_instance(time_instances, iid)
           rets == IF i # 0 THEN {OK} ELSE NullDeref({OK})
       IN  \E ret \in rets :
            /\ time_instances' =
                   IF i # 0
                   THEN [time_instances EXCEPT
                            ![i] = time_reset_instance(time_instances[i])]
                   ELSE time_instances
            /\ Record(Call("instance_reset", iid, 0, 0, NoCtx, ret, NoOut))
    /\ Mutates
    /\ UNCHANGED <<portfolio_instances, portfolio_backup, contract>>

\* the resources emitted by list_resources: kind and presence by resource id
time_list_resources ==
    [r \in {RID_CURRENT_TIME, RID_FRACTIONAL_TIME, RID_APPLICATION_TYPE} |->
        [kind |-> "ANJAY_DM_RES_RW",
         presence |-> IF r = RID_FRACTIONAL_TIME THEN "ANJAY_DM_RES_ABSENT"
                      ELSE "ANJAY_DM_RES_PRESENT"]]

TimeRIDs == DOMAIN time_list_resources

\* resource_read: the possible (result, value handed to the output context)
time_resource_read(list, iid, rid) ==
    LET i == find_instance(list, iid)
        normal ==
            IF rid = RID_CURRENT_TIME
            THEN {[ret |-> ERR, out |-> NoOut]}
                 \cup {[ret |-> OK, out |-> <<"i64", t>>] : t \in Times}
            ELSE IF rid = RID_APPLICATION_TYPE
            THEN IF i # 0
                 THEN {[ret |-> OK, out |-> <<"string", list[i].application_type>>]}
                 ELSE {[ret |-> r, out |-> NoOut] : r \in {ABORT, OK}}
            ELSE {[ret |-> ANJAY_ERR_METHOD_NOT_ALLOWED, out |-> NoOut]}
    IN  IF i = 0 /\ ~ndebug THEN {[ret |-> ABORT, out |-> NoOut]} ELSE normal

\* resource_write, called as the dispatcher calls it for a single-instance
\* resource: riid = ANJAY_ID_INVALID
time_resource_write(iid, rid, ctx) ==
    /\ Enabled("time")
    /\ LET i == find_instance(time_instances, iid)
           buf == IF i # 0 THEN time_instances[i].application_type ELSE EMPTY
           got == IF rid = RID_APPLICATION_TYPE
                  THEN anjay_get_string(ctx, buf, APPLICATION_TYPE_SIZE)
                  ELSE {[ret |-> ANJAY_ERR_METHOD_NOT_ALLOWED, buf |-> buf]}
       IN  \E g \in got :
           \E ret \in (IF i # 0 THEN {g.ret}
                       ELSE IF rid = RID_APPLICATION_TYPE THEN NullDeref({g.ret})
                       ELSE AssertFailed({g.ret})) :
            /\ time_instances' =
                   IF i # 0
                   THEN [time_instances EXCEPT ![i].application_type = g.buf]
                   ELSE time_instances
            /\ Record(Call("resource_write", iid, rid, ANJAY_ID_INVALID, ctx, ret, NoOut))
    /\ Mutates
    /\ UNCHANGED <<portfolio_instances, portfolio_backup, contract>>

\* begin returned ret: a failed begin starts no transaction, and a begin issued
\* inside a transaction breaks the coordinator's contract
Begins(ret) ==
    /\ txn' = IF txn # "Idle" THEN "Violated"
              ELSE IF ret = OK THEN "InTransaction" ELSE "Idle"
    /\ pre' = LiveInstances
    /\ dirty' = FALSE

Ends ==
    /\ txn # "Idle"
    /\ txn' = "Idle"
    /\ UNCHANGED <<pre, dirty>>

\* mutant: strcpy with its arguments swapped
time_begin_copy_Swapped(list) ==
    [i \in 1..Len(list) |->
        [list[i] EXCEPT !.application_type = list[i].application_type_backup]]

\* strcpy(element->application_type_backup, element->application_type) for each
time_begin_copy(list) ==
    [i \in 1..Len(list) |->
        [list[i] EXCEPT !.application_type_backup = list[i].application_type]]

\* strcpy(element->application_type, element->application_type_backup) for each
\* mutant: rollback also forgets when the instance was last notified
time_rollback_copy_ForgetNotify(list) ==
    [i \in 1..Len(list) |->
        [list[i] EXCEPT !.application_type = list[i].application_type_backup,
                        !.last_notify_timestamp = 0]]

time_rollback_copy(list) ==
    [i \in 1..Len(list) |->
        [list[i] EXCEPT !.application_type = list[i].application_type_backup]]

time_transaction_begin ==
    /\ Enabled("time")
    /\ time_instances' = time_begin_copy(time_instances)
    /\ Record(Call("transaction_begin", 0, 0, 0, NoCtx, OK, NoOut))
    /\ Begins(OK)
    /\ UNCHANGED <<portfolio_instances, portfolio_backup, contract>>

\* anjay_dm_transaction_NOOP
time_transaction_commit ==
    /\ Enabled("time")
    /\ Record(Call("transaction_commit", 0, 0, 0, NoCtx, OK, NoOut))
    /\ Ends
    /\ UNCHANGED <<time_instances, portfolio_instances, portfolio_backup, contract>>

time_transaction_rollback ==
    /\ Enabled("time")
    /\ time_instances' = time_rollback_copy(time_instances)
    /\ Record(Call("transaction_rollback", 0, 0, 0, NoCtx, OK, NoOut))
    /\ Ends
    /\ UNCHANGED <<portfolio_instances, portfolio_backup, contract>>

TimeNext ==
    \/ \E iid \in TimeIIDs, alloc_ok \in BOOLEAN : time_instance_create(iid, alloc_ok)
    \/ \E iid \in TimeIIDs : time_instance_remove(iid)
    \/ \E iid \in TimeIIDs : time_instance_reset(iid)
    \/ \E iid \in TimeIIDs, rid \in TimeRIDs :
        \E ctx \in (IF rid = RID_APPLICATION_TYPE THEN TimeCtxs ELSE {CtxX}) :
            time_resource_write(iid, rid, ctx)
    \/ time_transaction_begin
    \/ time_transaction_commit
    \/ time_transaction_rollback

-----------------------------------------------------------------------------
(* Portfolio object *)

IdentityTypes == 0..(MAX_IDENTITY_TYPE - 1)
PortfolioRIDs == {RID_IDENTITY, RID_GETAUTHDATA}

\* AVS_LIST_NEW_ELEMENT returns zeroed memory
\* mutant: the new instance comes with slot 0 present
NewPortfolioInstance_Slot0(iid) ==
    [iid |-> iid,
     has_identity |-> [t \in IdentityTypes |-> t = 0],
     identity_value |-> [t \in IdentityTypes |-> EMPTY]]

NewPortfolioInstance(iid) ==
    [iid |-> iid,
     has_identity |-> [t \in IdentityTypes |-> FALSE],
     identity_value |-> [t \in IdentityTypes |-> EMPTY]]

portfolio_add_instance(list, iid) == InsertInstance(list, NewPortfolioInstance(iid))

portfolio_instance_create(iid, alloc_ok) ==
    /\ Enabled("portfolio")
    /\ LET ret == IF alloc_ok THEN OK ELSE ANJAY_ERR_INTERNAL
       IN  /\ portfolio_instances' =
                  IF ret = OK THEN portfolio_add_instance(portfolio_instances, iid)
                  ELSE portfolio_instances
           /\ contract' = (contract /\ find_instance(portfolio_instances, iid) = 0)
           /\ Record(Call("instance_create", iid, 0, 0, NoCtx, ret, NoOut))
    /\ Mutates
    /\ UNCHANGED <<time_instances, portfolio_backup>>

portfolio_instance_remove(iid) ==
    /\ Enabled("portfolio")
    /\ LET i == remove_position(portfolio_instances, iid)
           rets == IF i # 0 THEN {OK} ELSE AssertFailed({ANJAY_ERR_NOT_FOUND})
       IN  \E ret \in rets :
            /\ portfolio_instances' = IF i # 0 THEN DeleteAt(portfolio_instances, i)
                                      ELSE portfolio_instances
            /\ contract' = (contract /\ i # 0)
            /\ Record(Call("instance_remove", iid, 0, 0, NoCtx, ret, NoOut))
    /\ Mutates
    /\ UNCHANGED <<time_instances, portfolio_backup>>

\* memset(inst->identity_value, 0, ...); memset(inst->has_identity, 0, ...)
portfolio_reset_instance(inst) ==
    [inst EXCEPT !.identity_value = [t \in IdentityTypes |-> EMPTY],
                 !.has_identity = [t \in IdentityTypes |-> FALSE]]

portfolio_instance_reset(iid) ==
    /\ Enabled("portfolio")
    /\ LET i == find_instance(portfolio_instances, iid)
           rets == IF i # 0 THEN {OK} ELSE NullDeref({OK})
       IN  \E ret \in rets :
            /\ portfolio_instances' =
                   IF i # 0
                   THEN [portfolio_instances EXCEPT
                            ![i] = portfolio_reset_instance(portfolio_instances[i])]
                   ELSE portfolio_instances
            /\ Record(Call("instance_reset", iid, 0, 0, NoCtx, ret, NoOut))
    /\ Mutates
    /\ UNCHANGED <<time_instances, portfolio_backup, contract>>

\* the one resource emitted by list_resources
portfolio_list_resources ==
    [r \in {RID_IDENTITY} |->
        [kind |-> "ANJAY_DM_RES_RWM", presence |-> "ANJAY_DM_RES_PRESENT"]]

\* mutant: the range check is missing
identity_in_range_Unchecked(riid) == TRUE

\* the sub-indices resource_write accepts
identity_in_range(riid) == riid < MAX_IDENTITY_TYPE

\* mutant: the slot is marked present but the value is not copied
portfolio_store_identity_NoCopy(inst, riid, value) ==
    [inst EXCEPT !.has_identity[riid] = TRUE]

\* mutant: the value is copied but the slot is not marked present
portfolio_store_identity_NoFlag(inst, riid, value) ==
    [inst EXCEPT !.identity_value[riid] = value]

\* what resource_write stores in the instance once the value was read
portfolio_store_identity(inst, riid, value) ==
    [inst EXCEPT !.has_identity[riid] = TRUE, !.identity_value[riid] = value]

portfolio_resource_write(iid, rid, riid, ctx) ==
    /\ Enabled("portfolio")
    /\ LET i == find_instance(portfolio_instances, iid)
           got == IF rid # RID_IDENTITY
                  THEN {[ret |-> r, buf |-> EMPTY] :
                            r \in AssertFailed({ANJAY_ERR_METHOD_NOT_ALLOWED})}
                  ELSE IF ~identity_in_range(riid)
                  THEN {[ret |-> ANJAY_ERR_NOT_FOUND, buf |-> EMPTY]}
                  ELSE anjay_get_string(ctx, EMPTY, MAX_IDENTITY_VALUE_SIZE)
           stores(g) == rid = RID_IDENTITY /\ identity_in_range(riid) /\ g.ret = OK
       IN  \E g \in got :
           \E ret \in (IF i # 0 THEN {g.ret}
                       ELSE IF stores(g) THEN NullDeref({g.ret})
                       ELSE AssertFailed({g.ret})) :
            /\ portfolio_instances' =
                   IF i # 0 /\ stores(g)
                   THEN [portfolio_instances EXCEPT
                            ![i] = portfolio_store_identity(portfolio_instances[i],
                                                            riid, g.buf)]
                   ELSE portfolio_instances
            /\ Record(Call("resource_write", iid, rid, riid, ctx, ret, NoOut))
    /\ Mutates
    /\ UNCHANGED <<time_instances, portfolio_backup, contract>>

\* memset(inst->has_identity, 0, sizeof(inst->has_identity))
portfolio_clear_identities(inst) ==
    [inst EXCEPT !.has_identity = [t \in IdentityTypes |-> FALSE]]

portfolio_resource_reset(iid, rid) ==
    /\ Enabled("portfolio")
    /\ LET i == find_instance(portfolio_instances, iid)
           rets == IF i = 0 THEN NullDeref({OK})
                   ELSE IF rid # RID_IDENTITY THEN AssertFailed({OK})
                   ELSE {OK}
       IN  \E ret \in rets :
            /\ portfolio_instances' =
                   IF i # 0 /\ ret = OK
                   THEN [portfolio_instances EXCEPT
                            ![i] = portfolio_clear_identities(portfolio_instances[i])]
                   ELSE portfolio_instances
            /\ Record(Call("resource_reset", iid, rid, 0, NoCtx, ret, NoOut))
    /\ Mutates
    /\ UNCHANGED <<time_instances, portfolio_backup, contract>>

\* resource_read: the possible (result, value handed to the output context)
portfolio_resource_read(list, iid, rid, riid) ==
    LET i == find_instance(list, iid)
        asserted == i # 0 /\ (rid = RID_IDENTITY =>
                                 riid < MAX_IDENTITY_TYPE /\ list[i].has_identity[riid])
        value == IF i # 0 /\ riid < MAX_IDENTITY_TYPE
                 THEN {[ret |-> OK, out |-> <<"string", list[i].identity_value[riid]>>]}
                 ELSE {[ret |-> ABORT, out |-> NoOut]}
                      \cup {[ret |-> OK, out |-> <<"string", s>>] : s \in {EMPTY, StrX}}
        normal == IF rid = RID_IDENTITY THEN value
                  ELSE {[ret |-> ANJAY_ERR_METHOD_NOT_ALLOWED, out |-> NoOut]}
    IN  IF rid = RID_IDENTITY /\ asserted THEN normal
        ELSE IF ndebug THEN normal
        ELSE {[ret |-> ABORT, out |-> NoOut]}

\* the sub-identifiers emitted by list_resource_instances, in emission order
RECURSIVE EmitPresent(_, _)
EmitPresent(inst, t) ==
    IF t >= MAX_IDENTITY_TYPE THEN <<>>
    ELSE (IF inst.has_identity[t] THEN <<t>> ELSE <<>>) \o EmitPresent(inst, t + 1)

\* mutant: the loop starts at sub-identifier 1
portfolio_list_resource_instances_From1(inst) == EmitPresent(inst, 1)

portfolio_list_resource_instances(inst) == EmitPresent(inst, 0)

\* AVS_LIST_SIMPLE_CLONE: a copy of every element, or NULL when memory runs out
AVS_LIST_SIMPLE_CLONE(list, alloc_ok) == IF alloc_ok THEN list ELSE <<>>

\* mutant: the result of the allocation is not looked at
begin_result_Ok(backup, instances) == OK

\* if (!obj->backup && obj->instances) return ANJAY_ERR_INTERNAL; return 0
begin_result(backup, instances) ==
    IF backup = <<>> /\ instances # <<>> THEN ANJAY_ERR_INTERNAL ELSE OK

portfolio_transaction_begin(alloc_ok) ==
    /\ Enabled("portfolio")
    /\ LET clone == AVS_LIST_SIMPLE_CLONE(portfolio_instances, alloc_ok)
           result == begin_result(clone, portfolio_instances)
           rets == IF portfolio_backup # <<>> THEN AssertFailed({result}) ELSE {result}
       IN  \E ret \in rets :
            /\ portfolio_backup' = IF ret = ABORT THEN portfolio_backup ELSE clone
            /\ Record(Call("transaction_begin", 0, 0, 0, NoCtx, ret,
                           <<"alloc_ok", alloc_ok>>))
            /\ Begins(ret)
    /\ UNCHANGED <<time_instances, portfolio_instances, contract>>

portfolio_transaction_commit ==
    /\ Enabled("portfolio")
    /\ portfolio_backup' = <<>>
    /\ Record(Call("transaction_commit", 0, 0, 0, NoCtx, OK, NoOut))
    /\ Ends
    /\ UNCHANGED <<time_instances, portfolio_instances, contract>>

\* mutant: the snapshot is dropped and the live list kept
portfolio_rollback_instances_Keep(instances, backup) == instances

\* AVS_LIST_CLEAR(&obj->instances); obj->instances = obj->backup
portfolio_rollback_instances(instances, backup) == backup

portfolio_transaction_rollback ==
    /\ Enabled("portfolio")
    /\ portfolio_instances' = portfolio_rollback_instances(portfolio_instances,
                                                           portfolio_backup)
    /\ portfolio_backup' = <<>>
    /\ Record(Call("transaction_rollback", 0, 0, 0, NoCtx, OK, NoOut))
    /\ Ends
    /\ UNCHANGED <<time_instances, contract>>

PortfolioNext ==
    \/ \E iid \in PortfolioIIDs, alloc_ok \in BOOLEAN :
            portfolio_instance_create(iid, alloc_ok)
    \/ \E iid \in PortfolioIIDs : portfolio_instance_remove(iid)
    \/ \E iid \in PortfolioIIDs : portfolio_instance_reset(iid)
    \/ \E iid \in PortfolioIIDs, w \in PortfolioWrites :
            portfolio_resource_write(iid, RID_IDENTITY, w[1], w[2])
    \/ \E iid \in PortfolioIIDs : portfolio_resource_write(iid, RID_GETAUTHDATA, 0, CtxX)
    \/ \E iid \in PortfolioIIDs, rid \in PortfolioRIDs : portfolio_resource_reset(iid, rid)
    \/ \E alloc_ok \in BOOLEAN : portfolio_transaction_begin(alloc_ok)
    \/ portfolio_transaction_commit
    \/ portfolio_transaction_rollback

(* Time object: time_object_notify and time_object_send *)

ClockValues == 0..MaxClock

\* const anjay_ssid_t server_ssid = 1
SERVER_SSID == 1

Iids(list) == [k \in 1..Len(list) |-> list[k].iid]

\* mutant: the timestamp is stored whether or not the notification succeeded
notify_instance_Always(inst, t, ok) ==
    IF inst.last_notify_timestamp # t
    THEN [inst EXCEPT !.last_notify_timestamp = t]
    ELSE inst

\* mutant: the timestamp is never stored
notify_instance_Never(inst, t, ok) == inst

\* the body of the loop of time_object_notify for one instance; ok is whether
\* anjay_notify_changed returned 0
notify_instance(inst, t, ok) ==
    IF inst.last_notify_timestamp # t /\ ok
    THEN [inst EXCEPT !.last_notify_timestamp = t]
    ELSE inst

\* the instances for which the loop calls anjay_notify_changed, in list order
notify_targets(list, t) ==
    Iids(SelectSeq(list, LAMBDA inst : inst.last_notify_timestamp # t))

\* args_ok: anjay and def are not NULL; clock_ok: avs_time_real_to_scalar
\* succeeded; fails: the iids for which anjay_notify_changed fails
time_object_notify(args_ok, clock_ok, fails) ==
    /\ Enabled("time")
    /\ LET ran == args_ok /\ clock_ok
           t == clock
           targets == IF ran THEN notify_targets(time_instances, t) ELSE <<>>
           done == {targets[k] : k \in 1..Len(targets)} \ fails
       IN  /\ time_instances' =
                IF ran
                THEN [k \in 1..Len(time_instances) |->
                        notify_instance(time_instances[k], t,
                                        time_instances[k].iid \notin fails)]
                ELSE time_instances
           /\ succ' = [iid \in TimeIIDs |->
                        IF iid \in done THEN succ[iid] + 1 ELSE succ[iid]]
           /\ RecordCall(Call("notify", 0, RID_CURRENT_TIME, 0, NoCtx, OK,
                              <<"notify", [ran |-> ran, t |-> t, targets |-> targets,
                                           failed |-> {targets[k] : k \in 1..Len(targets)}
                                                        \cap fails]>>))
    /\ UNCHANGED <<portfolio_instances, portfolio_backup, txn, pre, dirty,
                   contract, clock>>

\* the clock moves on to another reading
clock_set(t) ==
    /\ Enabled("time")
    /\ t # clock
    /\ clock' = t
    /\ succ' = [iid \in TimeIIDs |-> 0]
    /\ RecordCall(Call("clock_set", 0, 0, 0, NoCtx, OK, <<"i64", t>>))
    /\ UNCHANGED <<time_instances, portfolio_instances, portfolio_backup, txn,
                   pre, dirty, contract>>

\* the calls of anjay_send_batch_data_add_current the loop makes when none
\* fails: Current Time, then Application Type, instance by instance
send_adds(list) ==
    [k \in 1..(2 * Len(list)) |->
        [iid |-> list[(k + 1) \div 2].iid,
         rid |-> IF k % 2 = 1 THEN RID_CURRENT_TIME ELSE RID_APPLICATION_TYPE]]

\* mutant: a failed add is skipped and the batch is sent without it
time_send_outcome_SkipFailed(list, args_ok, builder_ok, fail_at, compile_ok, send_ok) ==
    LET adds == send_adds(list)
    IN  IF ~args_ok \/ ~builder_ok
        THEN [builders |-> IF args_ok THEN 1 ELSE 0, added |-> <<>>, submitted |-> <<>>]
        ELSE [builders |-> 1,
              added |-> adds,
              submitted |-> IF compile_ok
                            THEN <<[ssid |-> SERVER_SSID,
                                    batch |-> [k \in 1..Len(adds) |-> adds[k]]]>>
                            ELSE <<>>]

\* what time_object_send does: the builders it asked for, the adds it made
\* (the last one is the failed one when fail_at is within the loop) and the
\* calls of anjay_send it made.  fail_at = 0: no add fails.
time_send_outcome(list, args_ok, builder_ok, fail_at, compile_ok, send_ok) ==
    LET adds == send_adds(list)
        failed == fail_at \in 1..Len(adds)
    IN  IF ~args_ok \/ ~builder_ok
        THEN [builders |-> IF args_ok THEN 1 ELSE 0, added |-> <<>>, submitted |-> <<>>]
        ELSE [builders |-> 1,
              added |-> IF failed THEN SubSeq(adds, 1, fail_at) ELSE adds,
              submitted |-> IF ~failed /\ compile_ok
                            THEN <<[ssid |-> SERVER_SSID, batch |-> adds]>>
                            ELSE <<>>]

time_object_send(args_ok, builder_ok, fail_at, compile_ok, send_ok) ==
    /\ Enabled("time")
    /\ fail_at \in 0..(2 * Len(time_instances))
    /\ Record(Call("send", 0, 0, 0, NoCtx, OK,
                   <<"send", [inputs |-> [args_ok |-> args_ok, builder_ok |-> builder_ok,
                                          fail_at |-> fail_at, compile_ok |-> compile_ok,
                                          send_ok |-> send_ok],
                              did |-> time_send_outcome(time_instances, args_ok, builder_ok,
                                                        fail_at, compile_ok, send_ok)]>>))
    /\ UNCHANGED <<time_instances, portfolio_instances, portfolio_backup, txn, pre,
                   dirty, contract>>

\* the object in service: the library creates only instances that do not
\* exist and removes only instances that do
NotifyNext ==
    \/ \E iid \in TimeIIDs, alloc_ok \in BOOLEAN :
        find_instance(time_instances, iid) = 0 /\ time_instance_create(iid, alloc_ok)
    \/ \E iid \in TimeIIDs :
        find_instance(time_instances, iid) # 0 /\ time_instance_remove(iid)
    \/ \E t \in ClockValues : clock_set(t)
    \/ \E args_ok \in BOOLEAN, clock_ok \in BOOLEAN, fails \in SUBSET TimeIIDs :
        time_object_notify(args_ok, clock_ok, fails)
    \/ \E args_ok \in BOOLEAN, builder_ok \in BOOLEAN, fail_at \in 0..(2 * Cardinality(TimeIIDs)),
          compile_ok \in BOOLEAN, send_ok \in BOOLEAN :
        time_object_send(args_ok, builder_ok, fail_at, compile_ok, send_ok)

-----------------------------------------------------------------------------
(* Security configuration resolver (anjay_security_generic.c) *)

\* anjay_security_mode_t, by the names the source uses
ANJAY_SECURITY_PSK == "ANJAY_SECURITY_PSK"
ANJAY_SECURITY_RPK == "ANJAY_SECURITY_RPK"
ANJAY_SECURITY_CERTIFICATE == "ANJAY_SECURITY_CERTIFICATE"
ANJAY_SECURITY_NOSEC == "ANJAY_SECURITY_NOSEC"
ANJAY_SECURITY_EST == "ANJAY_SECURITY_EST"

\* what the Security Mode resource may hold: the five codes of the
\* enumeration and integers that are none of them
OutOfEnumeration == {"code 5", "code -1", "code 2^32 + 3"}
ModeCodes ==
    {ANJAY_SECURITY_PSK, ANJAY_SECURITY_RPK, ANJAY_SECURITY_CERTIFICATE,
     ANJAY_SECURITY_NOSEC, ANJAY_SECURITY_EST} \cup OutOfEnumeration
READ_FAILED == "READ_FAILED"
UNINITIALIZED == "UNINITIALIZED"

\* anjay_transport_security_t, and NULL for no transport descriptor
ANJAY_TRANSPORT_SECURITY_UNDEFINED == "ANJAY_TRANSPORT_SECURITY_UNDEFINED"
\* the value of the enumeration that is neither of the two the code names
ANJAY_TRANSPORT_PLAINTEXT == "ANJAY_TRANSPORT_PLAINTEXT"
ANJAY_TRANSPORT_ENCRYPTED == "ANJAY_TRANSPORT_ENCRYPTED"
NULL == "NULL"

\* const anjay_transport_info_t *: <<>> is the null pointer, <<d>> points to d
NoTransportInfo == <<>>
TransportInfos ==
    {NoTransportInfo}
    \cup {<<[uri_scheme |-> "coap", security |-> ANJAY_TRANSPORT_PLAINTEXT]>>,
          <<[uri_scheme |-> "coaps", security |-> ANJAY_TRANSPORT_ENCRYPTED]>>,
          <<[uri_scheme |-> "x", security |-> ANJAY_TRANSPORT_SECURITY_UNDEFINED]>>}

\* the three credential resources in the order get_dtls_keys reads them
KeyFields == <<"pk_or_identity", "server_pk_or_identity", "secret_key">>

\* what _anjay_dm_read_resource does for one credential resource: its return
\* value and the size it stores through buffer_size_ptr (a failed read may
\* have stored part of the value before it failed)
KeyReads == [ret : {OK, ERR}, size : {0, 2}]

\* anjay_log: the message, and the mode or resource and the URI scheme it names
LogEntry(msg, about, scheme) == [msg |-> msg, mode |-> about, scheme |-> scheme]

\* mutant: the raw-key code is treated like the other four
get_security_mode_AcceptRPK(read) ==
    IF read = READ_FAILED
    THEN [ret |-> ERR, out_mode |-> UNINITIALIZED,
          log |-> <<LogEntry("could not read LwM2M server security mode", "", "")>>]
    ELSE IF read \in OutOfEnumeration
    THEN [ret |-> ERR, out_mode |-> UNINITIALIZED, log |-> <<LogEntry("invalid security mode", read, "")>>]
    ELSE [ret |-> OK, out_mode |-> read, log |-> <<>>]

\* read: what _anjay_dm_read_resource_i64 produced, READ_FAILED or the code
get_security_mode(read) ==
    IF read = READ_FAILED
    THEN [ret |-> ERR, out_mode |-> UNINITIALIZED,
          log |-> <<LogEntry("could not read LwM2M server security mode", "", "")>>]
    ELSE IF read = ANJAY_SECURITY_RPK
    THEN [ret |-> ERR, out_mode |-> UNINITIALIZED, log |-> <<LogEntry("unsupported security mode", read, "")>>]
    ELSE IF read \in {ANJAY_SECURITY_NOSEC, ANJAY_SECURITY_PSK,
                      ANJAY_SECURITY_CERTIFICATE, ANJAY_SECURITY_EST}
    THEN [ret |-> OK, out_mode |-> read, log |-> <<>>]
    ELSE [ret |-> ERR, out_mode |-> UNINITIALIZED, log |-> <<LogEntry("invalid security mode", read, "")>>]

\* mutant: only an encrypted transport is ever checked
security_matches_transport_EncryptedOnly(security_mode, transport_info) ==
    IF transport_info[1].security = ANJAY_TRANSPORT_ENCRYPTED
       /\ security_mode = ANJAY_SECURITY_NOSEC
    THEN [matches |-> FALSE,
          log |-> <<LogEntry("security mode requires other protocol", security_mode,
                            transport_info[1].uri_scheme)>>]
    ELSE [matches |-> TRUE, log |-> <<>>]

security_matches_transport(security_mode, transport_info) ==
    IF transport_info[1].security = ANJAY_TRANSPORT_SECURITY_UNDEFINED
    THEN [matches |-> TRUE, log |-> <<>>]
    ELSE LET is_secure_transport == (transport_info[1].security = ANJAY_TRANSPORT_ENCRYPTED)
             needs_secure_transport == (security_mode # ANJAY_SECURITY_NOSEC)
         IN  IF is_secure_transport # needs_secure_transport
             THEN [matches |-> FALSE,
                   log |-> <<LogEntry("security mode requires other protocol",
                                      security_mode, transport_info[1].uri_scheme)>>]
             ELSE [matches |-> TRUE, log |-> <<>>]

NoKeys == [f \in {KeyFields[k] : k \in 1..3} |-> 0]

value_status(security_mode, field) ==
    IF field = "server_pk_or_identity" /\ security_mode = ANJAY_SECURITY_PSK
    THEN "OPTIONAL" ELSE "REQUIRED"

\* the loop of get_dtls_keys from value i on; acc holds the sizes stored and
\* the resources read so far
RECURSIVE ReadKeys(_, _, _, _)
ReadKeys(security_mode, reads, i, acc) ==
    IF i > 3
    THEN [ret |-> OK, keys |-> acc.keys, read |-> acc.read]
    ELSE LET f == KeyFields[i]
             stored == [keys |-> [acc.keys EXCEPT ![f] = reads[f].size],
                        read |-> Append(acc.read, f)]
         IN  IF reads[f].ret # OK /\ value_status(security_mode, f) = "REQUIRED"
             THEN [ret |-> ERR, keys |-> stored.keys, read |-> stored.read]
             ELSE ReadKeys(security_mode, reads, i + 1, stored)

get_dtls_keys(security_mode, reads) ==
    IF security_mode = ANJAY_SECURITY_NOSEC
    THEN [ret |-> OK, keys |-> NoKeys, read |-> <<>>]
    ELSE ReadKeys(security_mode, reads, 1, [keys |-> NoKeys, read |-> <<>>])

\* a buffer of the keys structure and the number of bytes of it that are used
KeyBuffer(keys, field) == [data |-> field, size |-> keys[field]]

\* certificate_info starts zeroed but for ignore_system_trust_store and the
\* two client buffers; validation, dane and the TLSA record are set only
\* inside if (keys->server_pk_or_identity_size > 0)
init_cert_security(keys) ==
    [ret |-> OK,
     config |-> [kind |-> "certificates",
                 ignore_system_trust_store |-> TRUE,
                 client_cert |-> KeyBuffer(keys, "pk_or_identity"),
                 client_key |-> KeyBuffer(keys, "secret_key"),
                 server_cert_validation |-> keys["server_pk_or_identity"] > 0,
                 dane |-> keys["server_pk_or_identity"] > 0,
                 dane_tlsa_record |->
                    IF keys["server_pk_or_identity"] > 0
                    THEN <<KeyBuffer(keys, "server_pk_or_identity")>>
                    ELSE <<>>]]

EmptyConfig == [kind |-> "none"]

\* psk_ok: whether _anjay_connection_init_psk_security returned 0
init_security(security_mode, keys, psk_ok) ==
    IF security_mode = ANJAY_SECURITY_NOSEC
    THEN [ret |-> OK, config |-> EmptyConfig]
    ELSE IF security_mode = ANJAY_SECURITY_PSK
    THEN IF psk_ok
         THEN [ret |-> OK, config |-> [kind |-> "psk",
                                       identity |-> keys["pk_or_identity"],
                                       key |-> keys["secret_key"]]]
         ELSE [ret |-> ERR, config |-> EmptyConfig]
    ELSE IF security_mode \in {ANJAY_SECURITY_CERTIFICATE, ANJAY_SECURITY_EST}
    THEN init_cert_security(keys)
    ELSE [ret |-> ERR, config |-> EmptyConfig]

-----------------------------------------------------------------------------
(* _anjay_connection_security_generic_get_config, stage by stage *)

object_vars == <<live, ndebug, halted, time_instances, portfolio_instances,
                 portfolio_backup, last, prev, txn, pre, dirty, contract, nops,
                 clock, succ>>

\* what the call finds around it: whether avs_calloc succeeds, what the
\* Security Mode resource reads as, what each credential resource reads as,
\* whether _anjay_connection_init_psk_security succeeds
ResolverEnvs ==
    [alloc_ok : BOOLEAN,
     mode_read : ModeCodes \cup {READ_FAILED},
     reads : [{KeyFields[k] : k \in 1..3} -> KeyReads],
     psk_ok : BOOLEAN]

\* anjay_connection_info_t as the caller passes it
ConnectionInfos ==
    [ssid : {1}, security_iid : {0}, transport_info : TransportInfos,
     is_encrypted : BOOLEAN]

NotRun == "not run"

NewResolver(env, info) ==
    [pc |-> "avs_calloc", env |-> env, given |-> info, inout_info |-> info,
     result |-> NULL, security_mode |-> UNINITIALIZED,
     mode_ret |-> NotRun, matches |-> NotRun, keys_ret |-> NotRun,
     init_ret |-> NotRun, keys |-> NoKeys, config |-> EmptyConfig,
     trace |-> <<>>, log |-> <<>>, returned |-> NotRun]

\* no call in progress
NoResolver ==
    [NewResolver([alloc_ok |-> TRUE, mode_read |-> READ_FAILED,
                  reads |-> [f \in {KeyFields[k] : k \in 1..3} |-> [ret |-> ERR, size |-> 0]],
                  psk_ok |-> TRUE],
                 [ssid |-> 1, security_iid |-> 0, transport_info |-> NoTransportInfo,
                  is_encrypted |-> FALSE])
        EXCEPT !.pc = "none"]

\* mutant: the transport is checked whatever get_security_mode returned
after_security_mode_Always(ret, transport_info) ==
    IF transport_info # NoTransportInfo THEN "security_matches_transport" ELSE "get_dtls_keys"

\* where the || chain goes after get_security_mode returned ret
after_security_mode(ret, transport_info) ==
    IF ret # OK THEN "error"
    ELSE IF transport_info # NoTransportInfo THEN "security_matches_transport"
    ELSE "get_dtls_keys"

get_config_alloc ==
    /\ resolver.pc = "avs_calloc"
    /\ resolver' = [resolver EXCEPT
            !.trace = Append(@, "avs_calloc"),
            !.result = IF resolver.env.alloc_ok THEN "allocated" ELSE NULL,
            !.pc = IF resolver.env.alloc_ok THEN "get_security_mode" ELSE "error"]
    /\ UNCHANGED object_vars

get_config_security_mode ==
    /\ resolver.pc = "get_security_mode"
    /\ LET r == get_security_mode(resolver.env.mode_read)
       IN  resolver' = [resolver EXCEPT
                !.trace = Append(@, "get_security_mode"),
                !.mode_ret = r.ret,
                !.security_mode = r.out_mode,
                !.log = @ \o r.log,
                !.pc = after_security_mode(r.ret, resolver.inout_info.transport_info)]
    /\ UNCHANGED object_vars

get_config_matches_transport ==
    /\ resolver.pc = "security_matches_transport"
    /\ LET r == security_matches_transport(resolver.security_mode,
                                           resolver.inout_info.transport_info)
       IN  resolver' = [resolver EXCEPT
                !.trace = Append(@, "security_matches_transport"),
                !.matches = IF r.matches THEN "true" ELSE "false",
                !.log = @ \o r.log,
                !.pc = IF r.matches THEN "get_dtls_keys" ELSE "error"]
    /\ UNCHANGED object_vars

get_config_dtls_keys ==
    /\ resolver.pc = "get_dtls_keys"
    /\ LET r == get_dtls_keys(resolver.security_mode, resolver.env.reads)
       IN  resolver' = [resolver EXCEPT
                !.trace = @ \o <<"get_dtls_keys">> \o r.read,
                !.keys_ret = r.ret,
                !.keys = r.keys,
                !.log = IF r.ret = OK THEN @
                        ELSE Append(@, LogEntry("read failed", r.read[Len(r.read)], "")),
                !.pc = IF r.ret = OK THEN "init_security" ELSE "error"]
    /\ UNCHANGED object_vars

get_config_init_security ==
    /\ resolver.pc = "init_security"
    /\ LET r == init_security(resolver.security_mode, resolver.keys, resolver.env.psk_ok)
       IN  resolver' = [resolver EXCEPT
                !.trace = Append(@, "init_security"),
                !.init_ret = r.ret,
                !.config = r.config,
                !.pc = IF r.ret = OK THEN "success" ELSE "error"]
    /\ UNCHANGED object_vars

\* mutant: the connection is always flagged as encrypted
is_encrypted_Always(security_mode) == TRUE

\* inout_info->is_encrypted = (security_mode != ANJAY_SECURITY_NOSEC)
is_encrypted(security_mode) == security_mode # ANJAY_SECURITY_NOSEC

get_config_return ==
    /\ resolver.pc = "success"
    /\ resolver' = [resolver EXCEPT
            !.inout_info.is_encrypted = is_encrypted(resolver.security_mode),
            !.returned = "security_config",
            !.pc = "done"]
    /\ UNCHANGED object_vars

get_config_error ==
    /\ resolver.pc = "error"
    /\ resolver' = [resolver EXCEPT
            !.trace = Append(@, "avs_free"),
            !.result = NULL,
            !.returned = NULL,
            !.pc = "done"]
    /\ UNCHANGED object_vars

SecurityNext ==
    \/ get_config_alloc
    \/ get_config_security_mode
    \/ get_config_matches_transport
    \/ get_config_dtls_keys
    \/ get_config_init_security
    \/ get_config_return
    \/ get_config_error

-----------------------------------------------------------------------------
TimeInit ==
    /\ live = "time"
    /\ time_instances = <<[NewTimeInstance(0) EXCEPT !.application_type = CLOCK_0]>>
    /\ portfolio_instances = <<>>
    /\ portfolio_backup = <<>>

PortfolioInit ==
    /\ live = "portfolio"
    /\ time_instances = <<>>
    /\ portfolio_instances = <<>>
    /\ portfolio_backup = <<>>

Init ==
    /\ ndebug \in BOOLEAN
    /\ TimeInit \/ PortfolioInit
    /\ halted = FALSE
    /\ last = Call("create", 0, 0, 0, NoCtx, OK, NoOut)
    /\ txn = "Idle"
    /\ pre = <<>>
    /\ dirty = FALSE
    /\ contract = TRUE
    /\ nops = 0
    /\ clock = 0
    /\ succ = [iid \in TimeIIDs |-> 0]
    /\ prev = [instances |-> <<>>, backup |-> <<>>, txn |-> "Idle",
               clock |-> clock, succ |-> succ]
    /\ resolver = NoResolver

Next ==
    \/ TimeNext
    \/ PortfolioNext

Spec == Init /\ [][Next]_vars

\* the Time object in service, with the clock running
NotifyInit ==
    /\ ndebug \in BOOLEAN
    /\ TimeInit
    /\ halted = FALSE
    /\ last = Call("create", 0, 0, 0, NoCtx, OK, NoOut)
    /\ txn = "Idle"
    /\ pre = <<>>
    /\ dirty = FALSE
    /\ contract = TRUE
    /\ nops = 0
    /\ clock \in ClockValues
    /\ succ = [iid \in TimeIIDs |-> 0]
    /\ prev = [instances |-> <<>>, backup |-> <<>>, txn |-> "Idle",
               clock |-> clock, succ |-> succ]
    /\ resolver = NoResolver

SpecNotify == NotifyInit /\ [][NotifyNext]_vars

\* either object in service: the handlers, the clock, notify and send
ServiceInit ==
    /\ ndebug \in BOOLEAN
    /\ TimeInit \/ PortfolioInit
    /\ halted = FALSE
    /\ last = Call("create", 0, 0, 0, NoCtx, OK, NoOut)
    /\ txn = "Idle"
    /\ pre = <<>>
    /\ dirty = FALSE
    /\ contract = TRUE
    /\ nops = 0
    /\ clock \in ClockValues
    /\ succ = [iid \in TimeIIDs |-> 0]
    /\ prev = [instances |-> <<>>, backup |-> <<>>, txn |-> "Idle",
               clock |-> clock, succ |-> succ]
    /\ resolver = NoResolver

\* what happens to an object around a transaction: instances come and go, a
\* resource is written, the clock moves, notifications go out, and the
\* transaction is begun and rolled back
ServiceNext ==
    \/ \E iid \in TimeIIDs :
        find_instance(time_instances, iid) = 0 /\ time_instance_create(iid, TRUE)
    \/ \E iid \in TimeIIDs :
        find_instance(time_instances, iid) # 0 /\ time_instance_remove(iid)
    \/ \E iid \in TimeIIDs : time_resource_write(iid, RID_APPLICATION_TYPE, CtxX)
    \/ time_transaction_begin
    \/ time_transaction_rollback
    \/ \E t \in ClockValues : clock_set(t)
    \/ \E fails \in SUBSET TimeIIDs : time_object_notify(TRUE, TRUE, fails)
    \/ \E iid \in PortfolioIIDs :
        find_instance(portfolio_instances, iid) = 0 /\ portfolio_instance_create(iid, TRUE)
    \/ \E iid \in PortfolioIIDs : portfolio_resource_write(iid, RID_IDENTITY, 0, CtxX)
    \/ \E alloc_ok \in BOOLEAN : portfolio_transaction_begin(alloc_ok)
    \/ portfolio_transaction_rollback

SpecService == ServiceInit /\ [][ServiceNext]_vars

\* one call of the resolver; neither object is in use
SecurityInit ==
    /\ live = "none"
    /\ ndebug \in BOOLEAN
    /\ time_instances = <<>>
    /\ portfolio_instances = <<>>
    /\ portfolio_backup = <<>>
    /\ halted = FALSE
    /\ last = Call("create", 0, 0, 0, NoCtx, OK, NoOut)
    /\ txn = "Idle"
    /\ pre = <<>>
    /\ dirty = FALSE
    /\ contract = TRUE
    /\ nops = 0
    /\ clock = 0
    /\ succ = [iid \in TimeIIDs |-> 0]
    /\ prev = [instances |-> <<>>, backup |-> <<>>, txn |-> "Idle",
               clock |-> clock, succ |-> succ]
    /\ \E env \in ResolverEnvs, info \in ConnectionInfos :
            resolver = NewResolver(env, info)

SpecSecurity == SecurityInit /\ [][SecurityNext]_vars

-----------------------------------------------------------------------------
(* Properties *)

StrictlyAscending(seq) == \A i \in 1..(Len(seq) - 1) : seq[i] < seq[i + 1]

Present(list, iid) == \E i \in 1..Len(list) : list[i].iid = iid

\* what a server can observe of an instance list
TimeVisible(list) ==
    [i \in 1..Len(list) |->
        [iid |-> list[i].iid, application_type |-> list[i].application_type]]

PortfolioVisible(list) ==
    [i \in 1..Len(list) |->
        [iid |-> list[i].iid,
         has_identity |-> list[i].has_identity,
         identity_value |-> [t \in IdentityTypes |->
                                IF list[i].has_identity[t]
                                THEN list[i].identity_value[t] ELSE EMPTY]]]

Did(obj, op) == live = obj /\ last.op = op

\* C1: as long as every create named an absent id and every remove a present
\* id, the ids list_instances emits are strictly ascending (hence without
\* duplicates), for the Time and for the Portfolio object.
C1_ListInstancesAscending ==
    contract => StrictlyAscending(list_instances(LiveInstances))

\* C1 witness: instance 1 was created in front of the existing instance 2
C1_Witness ==
    /\ contract
    /\ Did("portfolio", "instance_create") /\ last.ret = OK /\ last.iid = 1
    /\ list_instances(prev.instances) = <<2>>
    /\ list_instances(portfolio_instances) = <<1, 2>>

\* C2: Portfolio: a rollback that ends a transaction opened by a successful
\* begin leaves the instance list as it was when begin was called: the same
\* ids, the same presence flags, the same value in every present slot.
C2_PortfolioRollbackLaw ==
    (Did("portfolio", "transaction_rollback") /\ prev.txn = "InTransaction")
        => PortfolioVisible(portfolio_instances) = PortfolioVisible(pre)

\* C2 witness: create 1, write slot 0 = X, begin, write slot 0 = Y, create 2,
\* rollback
C2_Witness ==
    /\ Did("portfolio", "transaction_rollback") /\ prev.txn = "InTransaction"
    /\ list_instances(prev.instances) = <<1, 2>>
    /\ prev.instances[1].has_identity[0]
    /\ prev.instances[1].identity_value[0] = StrY
    /\ list_instances(portfolio_instances) = <<1>>
    /\ portfolio_instances[1].has_identity[0]
    /\ portfolio_instances[1].identity_value[0] = StrX

\* C3 (as claimed): Time: a rollback that ends a transaction leaves the set of
\* instances and every application_type as they were when begin was called.
C3_TimeRollbackLaw ==
    (Did("time", "transaction_rollback") /\ prev.txn = "InTransaction")
        => TimeVisible(time_instances) = TimeVisible(pre)

\* C4: begin directly followed by commit leaves the instances and every
\* readable resource value as they were before begin, for both objects.
C4_BeginCommitNoOp ==
    (last.op = "transaction_commit" /\ ~dirty)
        => /\ live = "time" => TimeVisible(time_instances) = TimeVisible(pre)
           /\ live = "portfolio" =>
                  PortfolioVisible(portfolio_instances) = PortfolioVisible(pre)

\* C4 witness: the Time object after write X, begin, commit
C4_Witness ==
    /\ Did("time", "transaction_commit") /\ ~dirty /\ prev.txn = "InTransaction"
    /\ Len(time_instances) = 1
    /\ time_instances[1].application_type = StrX

C6_CurrentTimeWriteAccepted ==
    (Did("time", "resource_write") /\ last.rid = RID_CURRENT_TIME
        /\ Present(prev.instances, last.iid))
        => last.ret = OK

\* C7 (as claimed): create_instance of an id that is present fails and leaves
\* the instance list unchanged, for both objects.
C7_CreateExistingFails ==
    (last.op = "instance_create" /\ Present(prev.instances, last.iid))
        => last.ret # OK /\ LiveInstances = prev.instances

\* C8: remove_instance of an absent id returns ANJAY_ERR_NOT_FOUND or aborts,
\* and the instance list is what it was, for both objects.
C8_RemoveAbsent ==
    (last.op = "instance_remove" /\ ~Present(prev.instances, last.iid))
        => /\ last.ret \in {ANJAY_ERR_NOT_FOUND, ABORT}
           /\ LiveInstances = prev.instances

\* C8 witness: remove of id 1 returned not-found while instance 2 exists
C8_Witness ==
    /\ Did("portfolio", "instance_remove") /\ last.iid = 1
    /\ last.ret = ANJAY_ERR_NOT_FOUND
    /\ list_instances(prev.instances) = <<2>>

\* C9: Portfolio: a write to the Identity resource of an existing instance with
\* a sub-index of 4 or more returns ANJAY_ERR_NOT_FOUND and leaves every
\* presence flag and slot value of every instance as it was.
C9_WriteOutOfRangeSlot ==
    (Did("portfolio", "resource_write") /\ last.rid = RID_IDENTITY
        /\ last.riid >= MAX_IDENTITY_TYPE /\ Present(prev.instances, last.iid))
        => /\ last.ret = ANJAY_ERR_NOT_FOUND
           /\ portfolio_instances = prev.instances
           /\ portfolio_backup = prev.backup

\* C9 witness: a write to slot 5 of an instance whose slot 0 is present
C9_Witness ==
    /\ Did("portfolio", "resource_write") /\ last.rid = RID_IDENTITY /\ last.riid = 5
    /\ last.ret = ANJAY_ERR_NOT_FOUND
    /\ \E i \in 1..Len(prev.instances) :
            prev.instances[i].iid = last.iid /\ prev.instances[i].has_identity[0]

\* C10: Portfolio: a successful write to slot s in 0..3 of an existing instance
\* marks s present with the written value and changes nothing else in any
\* instance; a write that fails leaves slot s as it was.
C10_WriteCreatesSlot ==
    (Did("portfolio", "resource_write") /\ last.rid = RID_IDENTITY
        /\ last.riid < MAX_IDENTITY_TYPE /\ Present(prev.instances, last.iid))
        => LET i == find_instance(prev.instances, last.iid)
           IN  IF last.ret = OK
               THEN portfolio_instances =
                        [prev.instances EXCEPT
                            ![i].has_identity[last.riid] = TRUE,
                            ![i].identity_value[last.riid] = last.ctx.str]
               ELSE /\ Len(portfolio_instances) = Len(prev.instances)
                    /\ portfolio_instances[i].has_identity[last.riid]
                            = prev.instances[i].has_identity[last.riid]
                    /\ portfolio_instances[i].identity_value[last.riid]
                            = prev.instances[i].identity_value[last.riid]

\* C10 witness: slot 3 was absent and is written while slot 0 holds Y and
\* another instance exists
C10_Witness ==
    /\ Did("portfolio", "resource_write") /\ last.ret = OK /\ last.riid = 3
    /\ Len(prev.instances) = 2
    /\ \E i \in 1..Len(prev.instances) :
            /\ prev.instances[i].iid = last.iid
            /\ ~prev.instances[i].has_identity[3]
            /\ prev.instances[i].has_identity[0]
            /\ portfolio_instances[i].has_identity[3]
            /\ portfolio_instances[i].identity_value[3] = StrX

Emitted(seq) == {seq[k] : k \in 1..Len(seq)}

\* C11: Portfolio: in every reachable state, for every instance,
\* list_resource_instances emits exactly the sub-identifiers whose presence
\* flag is set, each once, in ascending order.
C11_ListResourceInstances ==
    live = "portfolio" =>
        \A i \in 1..Len(portfolio_instances) :
            LET inst == portfolio_instances[i]
                e == portfolio_list_resource_instances(inst)
            IN  /\ StrictlyAscending(e)
                /\ Emitted(e) = {t \in IdentityTypes : inst.has_identity[t]}

\* C11 witness: an instance with slots 0 and 3 present, 1 and 2 absent
C11_Witness ==
    /\ live = "portfolio"
    /\ \E i \in 1..Len(portfolio_instances) :
            portfolio_list_resource_instances(portfolio_instances[i]) = <<0, 3>>

\* C12 (as claimed): a read of an existing instance returns
\* ANJAY_ERR_METHOD_NOT_ALLOWED for a resource id the handler does not know,
\* and ANJAY_ERR_NOT_FOUND for an Identity sub-index whose slot is absent.
C12_ReadErrors ==
    /\ live = "time" =>
        \A i \in 1..Len(time_instances) :
            \A r \in time_resource_read(time_instances, time_instances[i].iid,
                                        RID_FRACTIONAL_TIME) :
                r.ret = ANJAY_ERR_METHOD_NOT_ALLOWED
    /\ live = "portfolio" =>
        \A i \in 1..Len(portfolio_instances) :
            LET inst == portfolio_instances[i]
            IN  /\ \A r \in portfolio_resource_read(portfolio_instances, inst.iid,
                                                    RID_GETAUTHDATA, ANJAY_ID_INVALID) :
                        r.ret = ANJAY_ERR_METHOD_NOT_ALLOWED
                /\ \A t \in IdentityTypes :
                        ~inst.has_identity[t] =>
                            \A r \in portfolio_resource_read(portfolio_instances,
                                                             inst.iid, RID_IDENTITY, t) :
                                r.ret = ANJAY_ERR_NOT_FOUND

\* C13: instance_reset of an existing instance returns success, keeps every
\* instance in the list, empties the application_type of the Time instance or
\* marks all 4 slots of the Portfolio instance absent, and leaves every other
\* instance as it was.
C13_ResetInstance ==
    (last.op = "instance_reset" /\ Present(prev.instances, last.iid))
        => LET i == find_instance(prev.instances, last.iid)
           IN  /\ last.ret = OK
               /\ live = "time" =>
                    time_instances = [prev.instances EXCEPT ![i].application_type = EMPTY]
               /\ live = "portfolio" =>
                    PortfolioVisible(portfolio_instances) =
                        PortfolioVisible([prev.instances EXCEPT
                            ![i].has_identity = [t \in IdentityTypes |-> FALSE]])

\* C13 witness: instance 0 of the Time object, created with "Clock 0", is
\* reset while instance 1 holds X
C13_Witness ==
    /\ Did("time", "instance_reset") /\ last.iid = 0 /\ last.ret = OK
    /\ Len(prev.instances) = 2
    /\ prev.instances[1].application_type = CLOCK_0
    /\ prev.instances[2].application_type = StrX
    /\ time_instances[1].application_type = EMPTY
    /\ time_instances[2].application_type = StrX

\* C14 (as claimed): Portfolio: no snapshot is held while no transaction is
\* open, and a begin issued while a transaction is open is detected (it does
\* not return) and leaves the outstanding snapshot in place.
C14_OneSnapshot ==
    live = "portfolio" =>
        /\ txn = "Idle" => portfolio_backup = <<>>
        /\ (last.op = "transaction_begin" /\ prev.txn # "Idle")
                => last.ret = ABORT /\ portfolio_backup = prev.backup

\* C14, the part that holds: no snapshot is held while no transaction is open
C14_IdleHasNoSnapshot ==
    (live = "portfolio" /\ txn = "Idle") => portfolio_backup = <<>>

\* C15: an invocation of notify that got as far as reading the clock used one
\* reading t for all instances, called anjay_notify_changed exactly for the
\* instances whose last_notify_timestamp was not t, each once in list order,
\* stored t in an instance exactly when its notification succeeded, and left an
\* instance whose notification failed with its old timestamp, so that the next
\* invocation at this reading notifies it again; an invocation that returned
\* early changed nothing.
C15_Notify ==
    last.op = "notify" =>
        LET o == last.out[2]
            old == prev.instances
            due == {k \in 1..Len(old) : old[k].last_notify_timestamp # o.t}
        IN  /\ Len(time_instances) = Len(old)
            /\ ~o.ran => (time_instances = old /\ o.targets = <<>>)
            /\ o.ran =>
                /\ o.t = clock
                /\ o.targets = Iids(SelectSeq(old,
                        LAMBDA inst : inst.last_notify_timestamp # o.t))
                /\ Len(o.targets) = Cardinality(due)
                /\ \A k \in 1..Len(old) :
                        time_instances[k] =
                            IF k \in due /\ old[k].iid \notin o.failed
                            THEN [old[k] EXCEPT !.last_notify_timestamp = o.t]
                            ELSE old[k]
                /\ \A iid \in o.failed :
                        \E j \in 1..Len(notify_targets(time_instances, clock)) :
                            notify_targets(time_instances, clock)[j] = iid

\* C15 witness: an invocation in which the notification of instance 0
\* succeeded and that of instance 1 failed
C15_Witness ==
    /\ last.op = "notify" /\ last.out[2].ran
    /\ last.out[2].targets = <<0, 1>>
    /\ last.out[2].failed = {1}
    /\ time_instances[1].last_notify_timestamp = clock
    /\ time_instances[2].last_notify_timestamp # clock

\* C16: while the clock keeps one reading, no instance is successfully
\* notified more than once, however many times notify is invoked.
C16_AtMostOncePerSecond ==
    live = "time" => \A iid \in TimeIIDs : succ[iid] <= 1

\* C16 witness: instance 0 was notified at this reading, and a later
\* invocation at the same reading did not notify it again
C16_Witness ==
    /\ last.op = "notify" /\ last.out[2].ran
    /\ Present(time_instances, 0)
    /\ succ[0] = 1
    /\ \A j \in 1..Len(last.out[2].targets) : last.out[2].targets[j] # 0
    /\ prev.instances = time_instances

\* C17: an invocation of send changes no instance, asks for at most one batch
\* builder, calls anjay_send at most once and only for server 1, submits only
\* a batch holding Current Time then Application Type of every instance in list
\* order, and submits nothing when the builder, an add or the compilation
\* failed; a failed anjay_send is not repeated.
C17_Send ==
    last.op = "send" =>
        LET did == last.out[2].did
            in == last.out[2].inputs
            list == prev.instances
        IN  /\ time_instances = list
            /\ did.builders <= 1
            /\ Len(did.submitted) <= 1
            /\ \A j \in 1..Len(did.submitted) :
                LET sent == did.submitted[j]
                IN  /\ sent.ssid = 1
                    /\ sent.batch = did.added
                    /\ Len(sent.batch) = 2 * Len(list)
                    /\ \A k \in 1..Len(list) :
                        /\ sent.batch[2 * k - 1] = [iid |-> list[k].iid, rid |-> 5506]
                        /\ sent.batch[2 * k] = [iid |-> list[k].iid, rid |-> 5750]
            /\ (\/ ~in.args_ok \/ ~in.builder_ok \/ ~in.compile_ok
                \/ in.fail_at \in 1..(2 * Len(list)))
                    => did.submitted = <<>>
            /\ (in.args_ok /\ in.builder_ok /\ in.compile_ok /\ in.fail_at = 0)
                    => Len(did.submitted) = 1

\* C17 witness: two instances, every add succeeded, the batch of four items
\* was submitted once and anjay_send refused it
C17_Witness ==
    /\ last.op = "send"
    /\ Len(time_instances) = 2
    /\ Len(last.out[2].did.submitted) = 1
    /\ Len(last.out[2].did.submitted[1].batch) = 4
    /\ ~last.out[2].inputs.send_ok

Ran(stage) == \E k \in 1..Len(resolver.trace) : resolver.trace[k] = stage

Supported ==
    {ANJAY_SECURITY_NOSEC, ANJAY_SECURITY_PSK, ANJAY_SECURITY_CERTIFICATE,
     ANJAY_SECURITY_EST}

\* C18: once the classifier has run on a mode code that was read, it has
\* succeeded exactly when the code is NoSecurity, PreSharedKey, Certificate or
\* EST, and then the mode it stored is that code; for the RawKey code it
\* failed reporting "unsupported security mode", for a code outside the
\* enumeration it failed reporting "invalid security mode", and after either
\* failure no mode was stored.
C18_Classifier ==
    (Ran("get_security_mode") /\ resolver.env.mode_read # READ_FAILED) =>
        LET code == resolver.env.mode_read
        IN  /\ (resolver.mode_ret = OK) <=> (code \in Supported)
            /\ resolver.mode_ret = OK =>
                /\ resolver.security_mode = code
                /\ \A k \in 1..Len(resolver.log) :
                        resolver.log[k].msg \notin {"unsupported security mode",
                                                    "invalid security mode"}
            /\ resolver.mode_ret # OK =>
                /\ resolver.mode_ret = ERR
                /\ resolver.security_mode = UNINITIALIZED
                /\ Len(resolver.log) = 1
                /\ resolver.log[1].msg = IF code = ANJAY_SECURITY_RPK
                                         THEN "unsupported security mode"
                                         ELSE "invalid security mode"

\* C18 witness: the call is over, the code was RawKey and the classifier
\* rejected it as unsupported
C18_Witness ==
    /\ resolver.pc = "done"
    /\ resolver.env.mode_read = ANJAY_SECURITY_RPK
    /\ resolver.mode_ret = ERR
    /\ resolver.log = <<LogEntry("unsupported security mode", ANJAY_SECURITY_RPK, "")>>

\* C19: once the transport check has run for a mode and a transport
\* descriptor, it accepted when the security property is Undefined, it
\* accepted Encrypted exactly for modes other than NoSecurity, it accepted
\* PlainText exactly for NoSecurity, and every rejection was reported with the
\* mode and the scheme.
C19_TransportCheck ==
    Ran("security_matches_transport") =>
        LET mode == resolver.security_mode
            t == resolver.inout_info.transport_info[1]
            accepted == resolver.matches = "true"
        IN  /\ resolver.matches \in {"true", "false"}
            /\ t.security = ANJAY_TRANSPORT_SECURITY_UNDEFINED => accepted
            /\ t.security = ANJAY_TRANSPORT_ENCRYPTED =>
                    (accepted <=> mode # ANJAY_SECURITY_NOSEC)
            /\ t.security = ANJAY_TRANSPORT_PLAINTEXT =>
                    (accepted <=> mode = ANJAY_SECURITY_NOSEC)
            /\ ~accepted =>
                    \E k \in 1..Len(resolver.log) :
                        /\ resolver.log[k].mode = mode
                        /\ resolver.log[k].scheme = t.uri_scheme

\* C19 witness: Certificate over a plain-text transport was rejected
C19_Witness ==
    /\ Ran("security_matches_transport")
    /\ resolver.security_mode = ANJAY_SECURITY_CERTIFICATE
    /\ resolver.inout_info.transport_info[1].security = ANJAY_TRANSPORT_PLAINTEXT
    /\ resolver.matches = "false"
    /\ resolver.pc = "done"

StageRank(stage) ==
    CASE stage = "avs_calloc" -> 1
      [] stage = "get_security_mode" -> 2
      [] stage = "security_matches_transport" -> 3
      [] stage = "get_dtls_keys" -> 4
      [] stage = "pk_or_identity" -> 5
      [] stage = "server_pk_or_identity" -> 6
      [] stage = "secret_key" -> 7
      [] stage = "init_security" -> 8
      [] stage = "avs_free" -> 9

\* C20: at every point of a call of the resolver, the stages that have run
\* are in the order classifier, transport check, credential extraction, build;
\* the transport check has run only after the classifier succeeded and only
\* with a transport descriptor; credential extraction (and any read of a
\* credential resource) has run only after the classifier succeeded and the
\* transport check, if there is a descriptor, accepted; the build has run
\* only after extraction succeeded; and when the call is over, every stage
\* whose predecessors succeeded has run, the transport check being passed
\* over without failure when there is no descriptor.
C20_StageOrder ==
    LET tr == resolver.trace
        has_info == resolver.inout_info.transport_info # NoTransportInfo
        classified == Ran("get_security_mode") /\ resolver.mode_ret = OK
        compatible == IF has_info
                      THEN Ran("security_matches_transport") /\ resolver.matches = "true"
                      ELSE ~Ran("security_matches_transport")
                            /\ resolver.matches = NotRun
        extracted == Ran("get_dtls_keys") /\ resolver.keys_ret = OK
    IN  /\ \A i, j \in 1..Len(tr) : i < j => StageRank(tr[i]) < StageRank(tr[j])
        /\ Ran("get_security_mode") => resolver.result # NULL \/ Ran("avs_free")
        /\ Ran("security_matches_transport") => (classified /\ has_info)
        /\ (\E k \in 1..Len(tr) : StageRank(tr[k]) \in 4..7) =>
                (classified /\ compatible)
        /\ Ran("init_security") => (classified /\ compatible /\ extracted)
        /\ resolver.pc = "done" =>
            /\ Ran("avs_calloc")
            /\ resolver.env.alloc_ok => Ran("get_security_mode")
            /\ (classified /\ has_info) => Ran("security_matches_transport")
            /\ (classified /\ compatible) => Ran("get_dtls_keys")
            /\ (classified /\ compatible /\ extracted) => Ran("init_security")
            /\ (classified /\ ~has_info /\ extracted /\ resolver.init_ret = OK)
                    => resolver.returned = "security_config"

\* C20 witness: no transport descriptor, mode Certificate: the transport check
\* was passed over and the call went on to read the three credentials, build
\* and return a descriptor
C20_Witness ==
    /\ resolver.pc = "done"
    /\ resolver.inout_info.transport_info = NoTransportInfo
    /\ resolver.trace = <<"avs_calloc", "get_security_mode", "get_dtls_keys",
                          "pk_or_identity", "server_pk_or_identity", "secret_key",
                          "init_security">>
    /\ resolver.returned = "security_config"

\* the credential resources read so far, in the order they were read
CredentialReads ==
    SelectSeq(resolver.trace, LAMBDA e : StageRank(e) \in 5..7)

IsPrefix(p, q) == Len(p) <= Len(q) /\ \A k \in 1..Len(p) : p[k] = q[k]

FailedRead(f) == resolver.env.reads[f].ret # OK

RequiredField(f) ==
    ~(f = "server_pk_or_identity" /\ resolver.security_mode = ANJAY_SECURITY_PSK)

\* C21 (as claimed): once credential extraction has run: for NoSecurity it
\* succeeded and read nothing; for any other mode it read local identity,
\* peer identity, secret key in that order, stopping with an error at the
\* first failed read of a Required field (the peer field being Optional
\* exactly for PreSharedKey), and otherwise succeeded after all three reads,
\* every Optional field whose read failed being empty (size 0).
C21_Extraction ==
    Ran("get_dtls_keys") =>
        LET mode == resolver.security_mode
            rd == CredentialReads
            fields == {KeyFields[k] : k \in 1..3}
        IN  /\ mode = ANJAY_SECURITY_NOSEC => (resolver.keys_ret = OK /\ rd = <<>>)
            /\ mode # ANJAY_SECURITY_NOSEC =>
                /\ IsPrefix(rd, KeyFields)
                /\ (resolver.keys_ret = OK) <=>
                        ~\E f \in fields : RequiredField(f) /\ FailedRead(f)
                /\ resolver.keys_ret = OK =>
                    /\ rd = KeyFields
                    /\ \A f \in fields :
                        (~RequiredField(f) /\ FailedRead(f)) => resolver.keys[f] = 0
                /\ resolver.keys_ret # OK =>
                    /\ rd # <<>>
                    /\ RequiredField(rd[Len(rd)]) /\ FailedRead(rd[Len(rd)])
                    /\ \A k \in 1..(Len(rd) - 1) :
                            ~(RequiredField(rd[k]) /\ FailedRead(rd[k]))

\* C21, the part that holds: the order of the reads, the requirement levels
\* and the outcome of extraction
C21_ExtractionOutcome ==
    Ran("get_dtls_keys") =>
        LET mode == resolver.security_mode
            rd == CredentialReads
            fields == {KeyFields[k] : k \in 1..3}
        IN  /\ mode = ANJAY_SECURITY_NOSEC => (resolver.keys_ret = OK /\ rd = <<>>)
            /\ mode # ANJAY_SECURITY_NOSEC =>
                /\ IsPrefix(rd, KeyFields)
                /\ (resolver.keys_ret = OK) <=>
                        ~\E f \in fields : RequiredField(f) /\ FailedRead(f)
                /\ resolver.keys_ret = OK => rd = KeyFields

\* a read that ran out of buffer: it failed after storing what fitted
Overflowed(f) == FailedRead(f) /\ resolver.env.reads[f].size > 0

\* C22 (as claimed): once credential extraction has run for a mode other than
\* NoSecurity, if a read it made of any of the three fields overflowed the
\* buffer, extraction has failed.
C22_OverflowFails ==
    (Ran("get_dtls_keys") /\ resolver.security_mode # ANJAY_SECURITY_NOSEC) =>
        \A k \in 1..Len(CredentialReads) :
            Overflowed(CredentialReads[k]) => resolver.keys_ret # OK

\* C23 (as claimed): once the build has run for Certificate or EST, the
\* descriptor holds the local identity as client certificate and the secret
\* key as private key; with a non-empty peer field the pinning record is set
\* over that buffer and size and validation is DANE-assisted; with an empty
\* peer field no pinning record is set and server-certificate validation is
\* still enabled.
C23_CertificateDescriptor ==
    (Ran("init_security")
        /\ resolver.security_mode \in {ANJAY_SECURITY_CERTIFICATE, ANJAY_SECURITY_EST}) =>
        LET cfg == resolver.config
            peer == resolver.keys["server_pk_or_identity"]
        IN  /\ resolver.init_ret = OK
            /\ cfg.kind = "certificates"
            /\ cfg.client_cert = [data |-> "pk_or_identity",
                                  size |-> resolver.keys["pk_or_identity"]]
            /\ cfg.client_key = [data |-> "secret_key",
                                 size |-> resolver.keys["secret_key"]]
            /\ cfg.server_cert_validation
            /\ peer > 0 =>
                /\ cfg.dane
                /\ cfg.dane_tlsa_record =
                        <<[data |-> "server_pk_or_identity", size |-> peer]>>
            /\ peer = 0 => (~cfg.dane /\ cfg.dane_tlsa_record = <<>>)

AllStagesSucceeded ==
    /\ resolver.env.alloc_ok
    /\ resolver.mode_ret = OK
    /\ resolver.inout_info.transport_info # NoTransportInfo => resolver.matches = "true"
    /\ resolver.keys_ret = OK
    /\ resolver.init_ret = OK

\* C26: when a call of the resolver is over, it has returned a descriptor
\* exactly when allocation, classifier, transport check (if any), credential
\* extraction and build all succeeded; then is_encrypted is true exactly when
\* the mode is not NoSecurity and the other fields of the connection info are
\* as given; otherwise it returned NULL, released the allocation and the
\* connection info is as given, is_encrypted included.
C26_ResolverResult ==
    resolver.pc = "done" =>
        /\ resolver.returned \in {"security_config", NULL}
        /\ (resolver.returned = "security_config") <=> AllStagesSucceeded
        /\ resolver.returned = "security_config" =>
            /\ resolver.result # NULL
            /\ resolver.inout_info =
                    [resolver.given EXCEPT
                        !.is_encrypted = (resolver.security_mode # ANJAY_SECURITY_NOSEC)]
        /\ resolver.returned = NULL =>
            /\ resolver.result = NULL
            /\ resolver.inout_info = resolver.given

\* C26 witness: the connection info said encrypted, the mode is NoSecurity and
\* the call returned a descriptor, so the flag was cleared
C26_Witness ==
    /\ resolver.pc = "done"
    /\ resolver.returned = "security_config"
    /\ resolver.security_mode = ANJAY_SECURITY_NOSEC
    /\ resolver.given.is_encrypted
    /\ ~resolver.inout_info.is_encrypted

\* C25: while every create named an absent id and every remove a present id:
\* after a successful instance_create(iid) list_instances is the previous list
\* plus iid, the new instance has default resources (empty application_type
\* for the Time object, all 4 slots absent for the Portfolio object) and all
\* other instances are as they were; after a successful instance_remove(iid)
\* list_instances is the previous list without iid and all other instances
\* are as they were.
C25_LifecycleFrame ==
    (contract /\ last.ret = OK) =>
        LET old == prev.instances
            new == LiveInstances
            i == find_instance(new, last.iid)
        IN  /\ last.op = "instance_create" =>
                /\ i # 0
                /\ Emitted(list_instances(new)) =
                        Emitted(list_instances(old)) \cup {last.iid}
                /\ Len(new) = Len(old) + 1
                /\ DeleteAt(new, i) = old
                /\ live = "time" => new[i].application_type = EMPTY
                /\ live = "portfolio" =>
                        portfolio_list_resource_instances(new[i]) = <<>>
            /\ last.op = "instance_remove" =>
                /\ i = 0
                /\ Emitted(list_instances(new)) =
                        Emitted(list_instances(old)) \ {last.iid}
                /\ Len(new) = Len(old) - 1
                /\ new = SelectSeq(old, LAMBDA inst : inst.iid # last.iid)

\* C25 witness: Portfolio instance 1 is created with all slots absent next to
\* instance 2, which keeps its present slot
C25_Witness ==
    /\ Did("portfolio", "instance_create") /\ last.ret = OK /\ last.iid = 1
    /\ contract
    /\ Len(prev.instances) = 1 /\ prev.instances[1].iid = 2
    /\ prev.instances[1].has_identity[0]
    /\ Len(portfolio_instances) = 2
    /\ portfolio_instances[2] = prev.instances[1]

\* C27: Portfolio: a begin that could not allocate the snapshot of a non-empty
\* list returned ANJAY_ERR_INTERNAL, left the list as it was and holds no
\* snapshot; a begin on an empty list returned 0 and holds an empty snapshot;
\* and a rollback of a transaction that began on an empty list leaves the
\* list empty.
C27_BeginAllocation ==
    live = "portfolio" =>
        /\ (last.op = "transaction_begin" /\ last.ret # ABORT) =>
            /\ portfolio_instances = prev.instances
            /\ (~last.out[2] /\ prev.instances # <<>>) =>
                    (last.ret = ANJAY_ERR_INTERNAL /\ portfolio_backup = <<>>)
            /\ prev.instances = <<>> =>
                    (last.ret = OK /\ portfolio_backup = <<>>)
        /\ (last.op = "transaction_rollback" /\ prev.txn = "InTransaction"
                /\ pre = <<>>) =>
            (last.ret = OK /\ portfolio_instances = <<>>)

\* C27 witness: begin with one instance in the list could not allocate
C27_Witness ==
    /\ Did("portfolio", "transaction_begin")
    /\ ~last.out[2]
    /\ Len(prev.instances) = 1
    /\ last.ret = ANJAY_ERR_INTERNAL
    /\ txn = "Idle"

\* C24: a rollback, on either object, returned 0, made no call outside the
\* object (no notification, no send: nothing is recorded as output and the
\* count of notifications is as before), left the clock alone, and on the Time
\* object left the iid and the last_notify_timestamp of every instance as
\* they were.
C24_RollbackFrame ==
    last.op = "transaction_rollback" =>
        /\ last.ret = OK
        /\ ~halted
        /\ last.out = NoOut
        /\ succ = prev.succ
        /\ clock = prev.clock
        /\ live = "time" =>
            /\ Len(time_instances) = Len(prev.instances)
            /\ \A k \in 1..Len(time_instances) :
                /\ time_instances[k].iid = prev.instances[k].iid
                /\ time_instances[k].last_notify_timestamp =
                        prev.instances[k].last_notify_timestamp
        /\ live = "portfolio" => portfolio_instances = prev.backup

\* C24 witness: the Time object rolled back a written application_type of an
\* instance that had been notified at a reading other than 0
C24_Witness ==
    /\ Did("time", "transaction_rollback")
    /\ time_instances # prev.instances
    /\ \E k \in 1..Len(time_instances) :
        /\ time_instances[k].last_notify_timestamp # 0
        /\ time_instances[k].application_type # prev.instances[k].application_type

====
